---- MODULE Spec2Model ----
(***************************************************************************)
(* KanjiReader: the grade-aware text pipeline of reader/core.py            *)
(* (kata2hira_fix, sanitize, inject_ruby) and the orchestrator make_reader *)
(* (split retry, image requests, page layout, EPUB / flattened HTML).      *)
(*                                                                         *)
(* Characters are short strings.  Hiragana are written in lower-case       *)
(* romaji ("ta"), katakana in upper-case romaji ("TA"), the long-vowel     *)
(* mark U+30FC is "-", kanji are "k_one", "k_eat", ..., and the ASCII      *)
(* blank is "sp".  A text is a sequence of characters.                     *)
(*                                                                         *)
(* Three specifications share the variables:                               *)
(*   SpecKana  kata2hira_fix, one loop iteration per step;                 *)
(*   SpecText  sanitize(story_raw), sanitize(piece text), inject_ruby,     *)
(*             one token per step, as make_reader chains them;             *)
(*   Spec      make_reader.                                                *)
(***************************************************************************)
EXTENDS Integers, Sequences, FiniteSets, TLC

VARIABLES
    \* ---- kata2hira_fix (SpecKana)
    text_kata,      \* the argument
    hira,           \* jaconv.kata2hira(text_kata)
    kpos,           \* index of the next character of hira the loop reads
    kout,           \* the list `out`
    kpc,            \* "loop" | "done" | "idle"
    \* ---- sanitize / inject_ruby (SpecText)
    grade,          \* the target grade
    story_raw,      \* the text given to the first sanitize
    story_clean,    \* sanitize(story_raw, grade)
    piece_clean,    \* sanitize(p["text"], grade), p["text"] = story_clean
    html,           \* inject_ruby(piece_clean, grade)
    phase,          \* the call running: "sanitize_story" | "sanitize_piece" |
                    \* "inject_ruby" | "done" | "idle"
    text,           \* the argument `text` of the running call
    tpos,           \* the tokenizer's cursor into text
    tok,            \* the token of the last loop iteration
    out,            \* the list `out` of the running call, one entry per token
    toks,           \* the tokens tagger(story_raw) returned (the tokenizer is a
                    \* function of its input: the same text gives the same tokens)
    \* ---- one token of inject_ruby, statement by statement (SpecRuby)
    tk_reading,     \* the local `reading`
    tk_i,           \* the local `i` of the okurigana loop
    \* ---- make_reader (Spec)
    pc,             \* "gen_story" | "split" | "images" | "annotate" | "layout" |
                    \* "write_epub" | "write_html" | "done" | "failed" | "idle"
    n_pics_arg,     \* the argument n_pics
    n_pics,         \* n_pics after the cap of Step II
    story,          \* story_clean: the fragment it will render to, and what the
                    \* validator would say of it
    attempt,        \* the split loop's `attempt`
    split_lens,     \* history: len(pieces) of every splitter answer so far
    pieces,         \* the list `pieces`
    imgs,           \* the list `imgs`
    img_requests,   \* history: the prompts sent to the image generator
    html_pieces,    \* the list `html_pieces`
    li,             \* the layout loop's `i`
    manifest,       \* the image items added to the book
    spine,          \* the list `spine` (EPUB pages)
    pdf_pages,      \* the list `pdf_pages` (sections of the flattened HTML)
    epub_file,      \* what write_epub wrote to out_dir/slug.epub, or NoFile
    html_file,      \* what was written to out_dir/slug.html, or NoFile
    error,          \* the exception that ended the run, or NoError
    ret,            \* the returned pair of paths, or NoReturn
    \* ---- validate_story (SpecValidate)
    v_txt,          \* the argument txt
    v_grade,        \* the argument grade
    v_kanji,        \* the argument kanji, the list of required kanji
    v_min_freq,     \* the argument min_freq
    v_counts,       \* the dict `counts`
    v_pos,          \* index of the next character of txt the first loop reads
    v_ci,           \* index of the next item of counts the second loop reads
    v_pc,           \* "scan" | "counts" | "returned" | "raised" | "idle"
    v_error,        \* the ValueError raised, or NoValueError
    \* ---- two invocations of make_reader on one file system (SpecShared)
    fs,             \* the files of the output directory, by path
    inv             \* the invocations: where each is and what it has in hand

kanaVars == <<text_kata, hira, kpos, kout, kpc>>

rubyLoopVars == <<tk_reading, tk_i>>

textVars == <<grade, story_raw, story_clean, piece_clean, html, phase, text,
              tpos, tok, out, toks, rubyLoopVars>>

readerVars == <<pc, n_pics_arg, n_pics, story, attempt, split_lens, pieces, imgs,
                img_requests, html_pieces, li, manifest, spine, pdf_pages,
                epub_file, html_file, error, ret>>

validVars == <<v_txt, v_grade, v_kanji, v_min_freq, v_counts, v_pos, v_ci, v_pc, v_error>>

sharedVars == <<fs, inv>>

vars == <<kanaVars, textVars, readerVars, validVars, sharedVars>>

\* ------------------------------------------------------------------ bounds
MaxKanaLen == 4
MaxTextLen == 2

\* ------------------------------------------------------------- characters
LongMark == "-"

Katakana == {"KA", "HI", "RU", "KE", "KO", "N", "TA", "BE"}

Hiragana == {"ka", "hi", "ru", "ke", "ko", "n", "ta", "be", "tsu", "a", "i", "u"}

Kanji == {"k_one", "k_eat", "k_rare"}

Last(s) == s[Len(s)]

Min(a, b) == IF a <= b THEN a ELSE b

\* jaconv.kata2hira: katakana are mapped to hiragana one by one; every other
\* character, the long-vowel mark included, is left as it is.
Kata2HiraTable ==
    [c \in Katakana |->
        CASE c = "KA" -> "ka" [] c = "HI" -> "hi" [] c = "RU" -> "ru"
          [] c = "KE" -> "ke" [] c = "KO" -> "ko" [] c = "N"  -> "n"
          [] c = "TA" -> "ta" [] c = "BE" -> "be"]

kata2hira_char(c) == IF c \in Katakana THEN Kata2HiraTable[c] ELSE c

kata2hira(s) == [j \in 1..Len(s) |-> kata2hira_char(s[j])]

\* kakasi.convert(prev)[0]["hepburn"] for one character: its romanization, a
\* sequence of letters; a character kakasi does not romanize keeps no letter.
Hepburn(c) ==
    CASE c = "ka"  -> <<"k", "a">>
      [] c = "hi"  -> <<"h", "i">>
      [] c = "ru"  -> <<"r", "u">>
      [] c = "ke"  -> <<"k", "e">>
      [] c = "ko"  -> <<"k", "o">>
      [] c = "n"   -> <<"n">>
      [] c = "ta"  -> <<"t", "a">>
      [] c = "be"  -> <<"b", "e">>
      [] c = "tsu" -> <<"t", "s", "u">>
      [] c = "a"   -> <<"a">>
      [] c = "i"   -> <<"i">>
      [] c = "u"   -> <<"u">>
      [] OTHER     -> <<>>

VowelLetters == {"a", "i", "u", "e", "o"}

VOWEL2HIRA_e2e ==
    [v \in VowelLetters |->
        CASE v = "a" -> "a" [] v = "i" -> "i" [] v = "u" -> "u"
          [] v = "e" -> "e" [] v = "o" -> "o"]

VOWEL2HIRA ==
    [v \in VowelLetters |->
        CASE v = "a" -> "a" [] v = "i" -> "i" [] v = "u" -> "u"
          [] v = "e" -> "i" [] v = "o" -> "u"]

\* next((c for c in reversed(r) if c in "aiueo"), "u")
LastVowel(r) ==
    LET idx == {j \in 1..Len(r) : r[j] \in VowelLetters}
    IN  IF idx = {} THEN "u" ELSE r[CHOOSE j \in idx : \A k \in idx : k <= j]

FixStep_expandLeading(acc, ch) ==
    IF ch = LongMark
    THEN IF acc = <<>> THEN <<VOWEL2HIRA["u"]>>
         ELSE Append(acc, VOWEL2HIRA[LastVowel(Hepburn(Last(acc)))])
    ELSE Append(acc, ch)

\* One iteration of the loop of kata2hira_fix over the character ch.
FixStep(acc, ch) ==
    IF ch = LongMark
    THEN IF acc = <<>> THEN acc
         ELSE Append(acc, VOWEL2HIRA[LastVowel(Hepburn(Last(acc)))])
    ELSE Append(acc, ch)

RECURSIVE FixLoop(_, _, _)
FixLoop(h, j, acc) ==
    IF j > Len(h) THEN acc ELSE FixLoop(h, j + 1, FixStep(acc, h[j]))

kata2hira_fix(s) == FixLoop(kata2hira(s), 1, <<>>)

\* --------------------------------------------------- SpecKana: kata2hira_fix
KanaAlphabet == {"KA", "HI", "RU", "KE", "KO", "N", LongMark}

KanaInputs == UNION {[1..n -> KanaAlphabet] : n \in 0..MaxKanaLen}

\* the path does not exist
NoFile == [written |-> FALSE]

\* the call has not returned
NoReturn == <<>>

NoError == [kind |-> "none", observed |-> 0, expected |-> 0]

\* an exception raised by a collaborator or by the file system, by its stage
Failure(stage) == [kind |-> stage, observed |-> 0, expected |-> 0]

\* ValueError(f"Split length {len(pieces)} != {expected} after retries")
SplitLengthError(observed, expected) ==
    [kind |-> "split mismatch", observed |-> observed, expected |-> expected]

ReaderIdle ==
    /\ pc = "idle" /\ n_pics_arg = 0 /\ n_pics = 0 /\ story = <<>> /\ attempt = 0
    /\ split_lens = <<>> /\ pieces = <<>> /\ imgs = <<>> /\ img_requests = <<>>
    /\ html_pieces = <<>> /\ li = 1 /\ manifest = {} /\ spine = <<>> /\ pdf_pages = <<>>
    /\ epub_file = NoFile /\ html_file = NoFile /\ error = NoError /\ ret = NoReturn

NoValueError == [kind |-> "none", ch |-> "", count |-> 0, min_freq |-> 0]

ValidIdle ==
    /\ v_txt = <<>> /\ v_grade = 0 /\ v_kanji = <<>> /\ v_min_freq = 0
    /\ v_counts = <<>> /\ v_pos = 1 /\ v_ci = 1 /\ v_pc = "idle"
    /\ v_error = NoValueError

SharedIdle == fs = <<>> /\ inv = <<>>

TextIdle ==
    /\ grade = 0 /\ story_raw = <<>> /\ story_clean = <<>> /\ piece_clean = <<>>
    /\ html = <<>> /\ phase = "idle" /\ text = <<>> /\ tpos = 1
    /\ tok = [surface |-> <<>>, feature9 |-> <<>>] /\ out = <<>> /\ toks = <<>>
    /\ tk_reading = <<>> /\ tk_i = 1

InitKana ==
    /\ TextIdle
    /\ ReaderIdle
    /\ ValidIdle
    /\ SharedIdle
    /\ text_kata \in KanaInputs
    /\ hira = kata2hira(text_kata)
    /\ kpos = 1
    /\ kout = <<>>
    /\ kpc = "loop"

KanaStep ==
    /\ kpc = "loop"
    /\ kpos <= Len(hira)
    /\ kout' = FixStep(kout, hira[kpos])
    /\ kpos' = kpos + 1
    /\ UNCHANGED <<text_kata, hira, kpc, textVars, readerVars, validVars, sharedVars>>

KanaReturn ==
    /\ kpc = "loop"
    /\ kpos > Len(hira)
    /\ kpc' = "done"
    /\ UNCHANGED <<text_kata, hira, kpos, kout, textVars, readerVars, validVars, sharedVars>>

NextKana == KanaStep \/ KanaReturn

SpecKana == InitKana /\ [][NextKana]_vars

\* ------------------------------------------------------------ grade table
\* kanji_by_grade.json restricted to the model's kanji: grade -> its kanji.
\* k_rare is a kanji of no grade.
Grades == 1..6

KANJI ==
    [g \in Grades |->
        CASE g = 1 -> {"k_one"} [] g = 2 -> {"k_eat"} [] OTHER -> {}]

None == -1

UNGRADED == 99

is_kanji(c) == c \in Kanji

is_kana(ch) == ch \in Hiragana \cup Katakana \cup {LongMark}

grade_of_noSentinel(ch) ==
    IF \E g \in Grades : ch \in KANJI[g]
    THEN CHOOSE g \in Grades : ch \in KANJI[g]
    ELSE None

grade_of(ch) ==
    IF ~is_kanji(ch) THEN None
    ELSE IF \E g \in Grades : ch \in KANJI[g]
         THEN CHOOSE g \in Grades : ch \in KANJI[g] /\ \A h \in Grades : ch \in KANJI[h] => g <= h
         ELSE UNGRADED

\* Python's truth value of grade_of's result: None and 0 are false.
Truthy(x) == x /= None /\ x /= 0

\* is_kanji(ch) and grade_of(ch) and grade_of(ch) > max_grade
OverGrade(ch, max_grade) ==
    is_kanji(ch) /\ Truthy(grade_of(ch)) /\ grade_of(ch) > max_grade

\* ---------------------------------------------------------------- readings
RECURSIVE Join(_)
Join(parts) == IF parts = <<>> THEN <<>> ELSE Head(parts) \o Join(Tail(parts))

\* pykakasi's per-character "hira": a kanji of its dictionary gives its reading,
\* katakana give hiragana, and every character it has no reading for (a kanji
\* outside its dictionary included) is passed through unchanged.
KakasiHiraChar(c) ==
    CASE c = "k_one"   -> <<"hi">>
      [] c = "k_eat"   -> <<"ta">>
      [] c \in Katakana -> <<Kata2HiraTable[c]>>
      [] OTHER -> <<c>>

\* "".join(m["hira"] for m in kakasi.convert(surface))
KakasiHira(surface) == Join([j \in 1..Len(surface) |-> KakasiHiraChar(surface[j])])

HasFeature9(tk) == tk.feature9 /= <<>>

\* if len(tok.feature) > 9 and tok.feature[9]: kata2hira_fix(tok.feature[9])
\* else: the kakasi fallback.  A token's feature9 is <<>> when the tokenizer gave
\* no reading (the feature list is short, or the field is empty).
ReadingOf(tk) ==
    IF HasFeature9(tk) THEN kata2hira_fix(tk.feature9) ELSE KakasiHira(tk.surface)

Chars(s) == {s[j] : j \in 1..Len(s)}

\* ---------------------------------------------------------------- sanitize
SanitizeToken_keepSurface(tk, max_grade) == tk.surface

SanitizeToken_spaced(tk, max_grade) ==
    IF \E ch \in Chars(tk.surface) : OverGrade(ch, max_grade)
    THEN ReadingOf(tk) \o <<"sp">>
    ELSE tk.surface

SanitizeToken_allReadings(tk, max_grade) == ReadingOf(tk)

\* The loop body of sanitize: what one token appends to out.
SanitizeToken(tk, max_grade) ==
    IF \E ch \in Chars(tk.surface) : OverGrade(ch, max_grade)
    THEN ReadingOf(tk)
    ELSE tk.surface

\* -------------------------------------------------------------- inject_ruby
OkuriCond_noKana(surf, reading, i) ==
    /\ i <= Len(surf)
    /\ i <= Len(reading)
    /\ surf[Len(surf) - i + 1] = reading[Len(reading) - i + 1]

\* while i <= len(surf) and i <= len(reading):
\*     if is_kana(surf[-i]) and surf[-i] == reading[-i]: i += 1
\*     else: break
\* The loop goes on from i exactly when this holds.
OkuriCond(surf, reading, i) ==
    /\ i <= Len(surf)
    /\ i <= Len(reading)
    /\ is_kana(surf[Len(surf) - i + 1])
    /\ surf[Len(surf) - i + 1] = reading[Len(reading) - i + 1]

RECURSIVE OkuriLoop(_, _, _)
OkuriLoop(surf, reading, i) ==
    IF OkuriCond(surf, reading, i) THEN OkuriLoop(surf, reading, i + 1) ELSE i

\* okuri_len = i - 1 after the while loop
okuri_len(surf, reading) == OkuriLoop(surf, reading, 1) - 1

core_surf_whole(surf, n) == surf

\* surf[:-okuri_len], reading[:-okuri_len], surf[-okuri_len:]; with okuri_len = 0
\* the code takes surf, reading and "".
core_surf(surf, n) == SubSeq(surf, 1, Len(surf) - n)

core_read(reading, n) == SubSeq(reading, 1, Len(reading) - n)

okurigana(surf, n) == SubSeq(surf, Len(surf) - n + 1, Len(surf))

EmptyRubyGuard_off(cr) == FALSE

\* if not core_read: out.append(surf)
EmptyRubyGuard(cr) == cr = <<>>

NeedsRuby_all(surf, g) == \A c \in Chars(surf) : c \in KANJI[g]

\* any(c in grade_set for c in surf), grade_set = set(KANJI[str(grade)])
NeedsRuby(surf, g) == \E c \in Chars(surf) : c \in KANJI[g]

Ruby(core, rt, okuri) ==
    <<"<ruby>">> \o core \o <<"<rt>">> \o rt \o <<"</rt>", "</ruby>">> \o okuri

\* The loop body of inject_ruby: what one token appends to out.
RubyToken(tk, g) ==
    LET surf == tk.surface
        reading == ReadingOf(tk)
        n == okuri_len(surf, reading)
    IN  IF ~NeedsRuby(surf, g) THEN surf
        ELSE IF EmptyRubyGuard(core_read(reading, n)) THEN surf
        ELSE Ruby(core_surf(surf, n), core_read(reading, n), okurigana(surf, n))

\* ------------------------------------------------------------------ tagger
\* The tokenizer (fugashi over unidic-lite) is an external analyzer: it cuts the
\* text into tokens whose surfaces, in order, are the text without its blanks,
\* and gives each token a katakana reading (feature[9]) or none.  Which cut and
\* which reading is the dictionary's business: any is possible here.  The code
\* reads feature[9] only for a token that holds a kanji.
Blank == "sp"

TextAlphabet == {"k_one", "k_eat", "k_rare", "be", "ru", Blank}

Feature9s == {<<>>, <<"TA">>, <<"TA", "RU">>, <<"RU">>, <<"TA", LongMark>>}

NextStart(t, p) ==
    IF \E q \in p..Len(t) : t[q] /= Blank
    THEN CHOOSE q \in p..Len(t) : t[q] /= Blank /\ \A r \in p..(q - 1) : t[r] = Blank
    ELSE Len(t) + 1

TokensAt(t, q) ==
    {[surface |-> SubSeq(t, q, q + n - 1), feature9 |-> f] :
        <<n, f>> \in {nf \in (1..(Len(t) - q + 1)) \X Feature9s :
                        /\ \A j \in q..(q + nf[1] - 1) : t[j] /= Blank
                        /\ (nf[2] /= <<>> =>
                              \E j \in q..(q + nf[1] - 1) : is_kanji(t[j]))}}

\* The tokens tagger(text) may return next: those of the dictionary, or, for a
\* text it has tokenized before, the ones it returned then.
tagger(t, q, k) ==
    IF phase = "sanitize_piece" /\ t = story_raw
    THEN {toks[k]}
    ELSE TokensAt(t, q)

\* ------------------------------------------------ SpecText: the text passes
KanaIdle ==
    /\ text_kata = <<>> /\ hira = <<>> /\ kpos = 1 /\ kout = <<>> /\ kpc = "idle"

NoToken == [surface |-> <<>>, feature9 |-> <<>>]

TextInputs == UNION {[1..n -> TextAlphabet] : n \in 0..MaxTextLen}

InitText ==
    /\ KanaIdle
    /\ ReaderIdle
    /\ ValidIdle
    /\ SharedIdle
    /\ grade \in Grades
    /\ story_raw \in TextInputs
    /\ story_clean = <<>> /\ piece_clean = <<>> /\ html = <<>>
    /\ phase = "sanitize_story"
    /\ text = story_raw
    /\ tpos = 1
    /\ tok = NoToken
    /\ out = <<>>
    /\ toks = <<>>
    /\ tk_reading = <<>> /\ tk_i = 1

\* for tok in tagger(text): out.append(...)    (sanitize)
SanitizeStep ==
    /\ phase \in {"sanitize_story", "sanitize_piece"}
    /\ NextStart(text, tpos) <= Len(text)
    /\ \E tk \in tagger(text, NextStart(text, tpos), Len(out) + 1) :
        /\ tok' = tk
        /\ out' = Append(out, SanitizeToken(tk, grade))
        /\ tpos' = NextStart(text, tpos) + Len(tk.surface)
        /\ toks' = IF phase = "sanitize_story" THEN Append(toks, tk) ELSE toks
    /\ UNCHANGED <<grade, story_raw, story_clean, piece_clean, html, phase, text, kanaVars, rubyLoopVars, readerVars, validVars, sharedVars>>

\* story_clean = sanitize(story_raw, grade); with no illustration the one piece
\* is the whole story_clean, and it is sanitized again before inject_ruby.
SanitizeStoryReturn ==
    /\ phase = "sanitize_story"
    /\ NextStart(text, tpos) > Len(text)
    /\ story_clean' = Join(out)
    /\ text' = Join(out)
    /\ toks' = IF Join(out) = story_raw THEN toks ELSE <<>>
    /\ phase' = "sanitize_piece"
    /\ tpos' = 1 /\ out' = <<>> /\ tok' = NoToken
    /\ UNCHANGED <<grade, story_raw, piece_clean, html, kanaVars, rubyLoopVars, readerVars, validVars, sharedVars>>

SanitizePieceReturn ==
    /\ phase = "sanitize_piece"
    /\ NextStart(text, tpos) > Len(text)
    /\ piece_clean' = Join(out)
    /\ text' = Join(out)
    /\ phase' = "inject_ruby"
    /\ tpos' = 1 /\ out' = <<>> /\ tok' = NoToken /\ toks' = <<>>
    /\ UNCHANGED <<grade, story_raw, story_clean, html, kanaVars, rubyLoopVars, readerVars, validVars, sharedVars>>

\* for tok in tagger(text): out.append(...)    (inject_ruby)
RubyStep ==
    /\ phase = "inject_ruby"
    /\ NextStart(text, tpos) <= Len(text)
    /\ \E tk \in tagger(text, NextStart(text, tpos), Len(out) + 1) :
        /\ tok' = tk
        /\ out' = Append(out, RubyToken(tk, grade))
        /\ tpos' = NextStart(text, tpos) + Len(tk.surface)
    /\ UNCHANGED <<grade, story_raw, story_clean, piece_clean, html, phase, text, toks, kanaVars, rubyLoopVars, readerVars, validVars, sharedVars>>

RubyReturn ==
    /\ phase = "inject_ruby"
    /\ NextStart(text, tpos) > Len(text)
    /\ html' = Join(out)
    /\ phase' = "done"
    /\ UNCHANGED <<grade, story_raw, story_clean, piece_clean, text, tpos, tok, out, toks, kanaVars, rubyLoopVars, readerVars, validVars, sharedVars>>

NextText ==
    \/ SanitizeStep
    \/ SanitizeStoryReturn
    \/ SanitizePieceReturn
    \/ RubyStep
    \/ RubyReturn

SpecText == InitText /\ [][NextText]_vars

\* ------------------------------- SpecRuby: inject_ruby's loop body, one token
MaxSurfLen == 3
MaxFeatLen == 3

SurfAlphabet == {"k_one", "k_eat", "k_rare", "be", "ru"}

FeatAlphabet == {"TA", "BE", "RU", LongMark}

Surfaces == UNION {[1..n -> SurfAlphabet] : n \in 1..MaxSurfLen}

Features == UNION {[1..n -> FeatAlphabet] : n \in 0..MaxFeatLen}

InitRuby ==
    /\ KanaIdle
    /\ ReaderIdle
    /\ ValidIdle
    /\ SharedIdle
    /\ grade \in Grades
    /\ tok \in [surface : Surfaces, feature9 : Features]
    /\ story_raw = <<>> /\ story_clean = <<>> /\ piece_clean = <<>> /\ html = <<>>
    /\ text = <<>> /\ tpos = 1 /\ toks = <<>>
    /\ phase = "tok_start"
    /\ out = <<>>
    /\ tk_reading = <<>> /\ tk_i = 1

rubyFrame == <<grade, tok, story_raw, story_clean, piece_clean, html, text, tpos,
               toks, kanaVars, readerVars, validVars, sharedVars>>

\* if not any(c in grade_set for c in surf): out.append(surf); continue
RubyNoNeed ==
    /\ phase = "tok_start"
    /\ ~NeedsRuby(tok.surface, grade)
    /\ out' = Append(out, tok.surface)
    /\ phase' = "tok_done"
    /\ UNCHANGED <<rubyFrame, rubyLoopVars>>

\* reading = ...; i = 1
RubyGetReading ==
    /\ phase = "tok_start"
    /\ NeedsRuby(tok.surface, grade)
    /\ tk_reading' = ReadingOf(tok)
    /\ tk_i' = 1
    /\ phase' = "okuri_loop"
    /\ UNCHANGED <<rubyFrame, out>>

\* i += 1
OkuriIter ==
    /\ phase = "okuri_loop"
    /\ OkuriCond(tok.surface, tk_reading, tk_i)
    /\ tk_i' = tk_i + 1
    /\ UNCHANGED <<rubyFrame, out, phase, tk_reading>>

\* the loop's condition fails, or break
OkuriExit ==
    /\ phase = "okuri_loop"
    /\ ~OkuriCond(tok.surface, tk_reading, tk_i)
    /\ phase' = "emit"
    /\ UNCHANGED <<rubyFrame, out, rubyLoopVars>>

\* if not core_read: out.append(surf)
EmitSurface ==
    /\ phase = "emit"
    /\ EmptyRubyGuard(core_read(tk_reading, tk_i - 1))
    /\ out' = Append(out, tok.surface)
    /\ phase' = "tok_done"
    /\ UNCHANGED <<rubyFrame, rubyLoopVars>>

\* else: out.append(f"<ruby>{core_surf}<rt>{core_read}</rt></ruby>{okurigana}")
EmitRuby ==
    /\ phase = "emit"
    /\ ~EmptyRubyGuard(core_read(tk_reading, tk_i - 1))
    /\ out' = Append(out, Ruby(core_surf(tok.surface, tk_i - 1),
                               core_read(tk_reading, tk_i - 1),
                               okurigana(tok.surface, tk_i - 1)))
    /\ phase' = "tok_done"
    /\ UNCHANGED <<rubyFrame, rubyLoopVars>>

NextRuby ==
    \/ RubyNoNeed
    \/ RubyGetReading
    \/ OkuriIter
    \/ OkuriExit
    \/ EmitSurface
    \/ EmitRuby

SpecRuby == InitRuby /\ [][NextRuby]_vars

\* ------------------------------------------------------------- make_reader
CHAR_THRESHOLD == 500

MAX_PICS == 3

MAX_RETRY_SPLIT == 2

\* len("<ruby><rt></rt></ruby>"), the markup inject_ruby adds per annotation
RUBY_MARKUP == 22

MaxNPics == 4

MaxSplitLen == 4

\* A text of a run is kept as what the layout reads of it: how many characters
\* it has once sanitized, and how many of its tokens inject_ruby annotates (each
\* adds the markup and, here, a ruby text of one character).
TextClasses ==
    {[len |-> CHAR_THRESHOLD - 2, ruby |-> 1],
     [len |-> CHAR_THRESHOLD - 1, ruby |-> 0],
     [len |-> CHAR_THRESHOLD, ruby |-> 0]}

\* inject_ruby(sanitize(p["text"], grade), grade) of piece number k
AnnotatePiece(k, t) ==
    [id |-> k, markup |-> RUBY_MARKUP * t.ruby, visible |-> t.len + t.ruby]

\* len(re.sub(r"<[^>]+>", "", html)): the tags are dropped, the ruby text stays
plain_len(h) == h.visible

NoImage == [present |-> FALSE, of |-> 0]

\* requests.get(gen.data[0].url).content for the prompt
ImageOf(prompt) == [present |-> TRUE, of |-> prompt]

NoRef == [ref |-> "none", of |-> 0]

\* img_name = f"img{i}.jpg"
ImgName(i) == [ref |-> "file", of |-> i]

\* as_data_uri(halve_image(img_bytes)): the same picture, halved and inlined
DataUri(img) == [ref |-> "data", of |-> img.of]

NoText == [id |-> 0, markup |-> 0, visible |-> 0]

SideSec(h, src) == [kind |-> "side", text |-> h, src |-> src]

SoloSec(h) == [kind |-> "solo", text |-> h, src |-> NoRef]

PictureSec(src) == [kind |-> "picture", text |-> NoText, src |-> src]

Replace_not(sec, from, to) == sec

\* sec.replace(data_uri, epub_src)
Replace(sec, from, to) == IF sec.src = from THEN [sec EXCEPT !.src = to] ELSE sec

\* epub.EpubHtml(title=..., file_name=...) with its content
Page(i, suffix, content) == [file_name |-> <<"p", i, suffix>>, content |-> content]

PdfAppendPicture_skip(pages, sec) == pages

\* pdf_pages.append(img_sec)
PdfAppendPicture(pages, sec) == Append(pages, sec)

Layout_lenient(h, img) == plain_len(h) <= CHAR_THRESHOLD /\ img.present

\* short and img_bytes is not None, short = plain_len(html) < CHAR_THRESHOLD
LayoutIsSide(h, img) == plain_len(h) < CHAR_THRESHOLD /\ img.present

Cap_none(n) == n

\* n_pics = MAX_PICS if n_pics > MAX_PICS else n_pics
Cap(n) == IF n > MAX_PICS THEN MAX_PICS ELSE n

WantsPictures_orZero(n) == n >= 0

\* if n_pics > 0:
WantsPictures(n) == n > 0

SplitOk_any(p, expected) == TRUE

\* len(pieces) == expected
SplitOk(p, expected) == Len(p) = expected

MayRetry_short(a) == a < MAX_RETRY_SPLIT - 1

MayRetry_long(a) == a < MAX_RETRY_SPLIT + 1

\* elif attempt < MAX_RETRY_SPLIT
MayRetry(a) == a < MAX_RETRY_SPLIT

\* What the splitter may answer: any number of pieces, each with a text and a
\* prompt (here the piece's own number).
SplitAnswers ==
    UNION {{[k \in 1..n |-> [index |-> k, text |-> c[k], prompt |-> k]] :
              c \in [1..n -> TextClasses]} : n \in 0..MaxSplitLen}

\* What validate_story(story_clean, grade, kanji, min_freq) would do with the
\* generated story: return, or raise because a required kanji is too rare.
Verdicts == {"returns", "too few"}

StoryCheck_called(v) == v = "returns"

\* #validate_story(story_clean, grade, kanji, min_freq): the call is commented
\* out, the story goes on whatever the validator would say
StoryCheck(v) == TRUE

InitReader ==
    /\ pc = "gen_story"
    /\ n_pics_arg \in (-1)..MaxNPics
    /\ n_pics = n_pics_arg
    /\ story = <<>> /\ attempt = 0
    /\ split_lens = <<>> /\ pieces = <<>> /\ imgs = <<>> /\ img_requests = <<>>
    /\ html_pieces = <<>> /\ li = 1 /\ manifest = {} /\ spine = <<>> /\ pdf_pages = <<>>
    /\ epub_file = NoFile /\ html_file = NoFile /\ error = NoError /\ ret = NoReturn

Init == KanaIdle /\ TextIdle /\ ValidIdle /\ SharedIdle /\ InitReader

frame == <<kanaVars, textVars, validVars, sharedVars>>

\* Step I and the head of Step II: the story is generated and sanitized, n_pics is
\* capped; with no illustration the one piece is the whole story, with no image.
GenStory ==
    /\ pc = "gen_story"
    /\ \E c \in TextClasses, v \in Verdicts :
        /\ story' = [text |-> c, verdict |-> v]
        /\ IF ~StoryCheck(v)
           THEN /\ pc' = "failed"
                /\ error' = Failure("validation")
                /\ UNCHANGED <<n_pics, pieces, imgs>>
           ELSE /\ error' = error
                /\ n_pics' = Cap(n_pics_arg)
                /\ IF WantsPictures(Cap(n_pics_arg))
                   THEN /\ pc' = "split"
                        /\ UNCHANGED <<pieces, imgs>>
                   ELSE /\ pc' = "annotate"
                        /\ pieces' = <<[index |-> 1, text |-> c, prompt |-> 0]>>
                        /\ imgs' = <<NoImage>>
    /\ UNCHANGED <<n_pics_arg, attempt, split_lens, img_requests, html_pieces, li,
                   manifest, spine, pdf_pages, epub_file, html_file, ret, frame>>

\* the text generator raises, or its answer is not the JSON asked for
GenStoryFails ==
    /\ pc = "gen_story"
    /\ pc' = "failed"
    /\ error' = Failure("generation")
    /\ UNCHANGED <<n_pics_arg, n_pics, story, attempt, split_lens, pieces, imgs,
                   img_requests, html_pieces, li, manifest, spine, pdf_pages,
                   epub_file, html_file, ret, frame>>

splitFrame == <<n_pics_arg, n_pics, story, imgs, img_requests, html_pieces, li,
                manifest, spine, pdf_pages, epub_file, html_file, ret, frame>>

\* one iteration of the split loop whose answer has the expected length: break
SplitAccept ==
    /\ pc = "split"
    /\ attempt <= MAX_RETRY_SPLIT
    /\ \E a \in SplitAnswers :
        /\ SplitOk(a, n_pics)
        /\ pieces' = a
        /\ split_lens' = Append(split_lens, Len(a))
    /\ pc' = "images"
    /\ UNCHANGED <<attempt, error, splitFrame>>

\* one iteration whose answer has another length, with attempts left
SplitRetry ==
    /\ pc = "split"
    /\ attempt <= MAX_RETRY_SPLIT
    /\ MayRetry(attempt)
    /\ \E a \in SplitAnswers :
        /\ ~SplitOk(a, n_pics)
        /\ pieces' = a
        /\ split_lens' = Append(split_lens, Len(a))
    /\ attempt' = attempt + 1
    /\ UNCHANGED <<pc, error, splitFrame>>

\* the last iteration, its answer of another length: raise ValueError
SplitMismatch ==
    /\ pc = "split"
    /\ attempt <= MAX_RETRY_SPLIT
    /\ ~MayRetry(attempt)
    /\ \E a \in SplitAnswers :
        /\ ~SplitOk(a, n_pics)
        /\ pieces' = a
        /\ split_lens' = Append(split_lens, Len(a))
        /\ error' = SplitLengthError(Len(a), n_pics)
    /\ pc' = "failed"
    /\ UNCHANGED <<attempt, splitFrame>>

\* the splitter call raises, or its answer is not the JSON asked for
SplitFails ==
    /\ pc = "split"
    /\ attempt <= MAX_RETRY_SPLIT
    /\ pc' = "failed"
    /\ error' = Failure("generation")
    /\ UNCHANGED <<attempt, pieces, split_lens, splitFrame>>

OnImageError_goOn == "images"

\* Nothing catches an exception of openai.images.generate or requests.get: it
\* leaves the loop and make_reader.
OnImageError == "failed"

NextPiece_reversed(ps, done) == ps[Len(ps) - Len(done)]

\* for idx, p in enumerate(pieces, 1): the piece of this turn, with `done` the
\* images appended so far
NextPiece(ps, done) == ps[Len(done) + 1]

imageFrame == <<n_pics_arg, n_pics, story, attempt, split_lens, pieces, html_pieces,
                li, manifest, spine, pdf_pages, epub_file, html_file, ret, frame>>

\* for idx, p in enumerate(pieces, 1): one image is generated and downloaded
ImageRequest ==
    /\ pc = "images"
    /\ Len(imgs) < Len(pieces)
    /\ LET p == NextPiece(pieces, imgs)
       IN  /\ img_requests' = Append(img_requests, p.prompt)
           /\ imgs' = Append(imgs, ImageOf(p.prompt))
    /\ pc' = IF Len(imgs) + 1 = Len(pieces) THEN "annotate" ELSE "images"
    /\ UNCHANGED <<error, imageFrame>>

\* the image generator or the download raises
ImageFails ==
    /\ pc = "images"
    /\ Len(imgs) < Len(pieces)
    /\ img_requests' = Append(img_requests, NextPiece(pieces, imgs).prompt)
    /\ pc' = OnImageError
    /\ error' = Failure("generation")
    /\ UNCHANGED <<imgs, imageFrame>>

\* Step IV, and the head of Step V
Annotate ==
    /\ pc = "annotate"
    /\ html_pieces' = [k \in 1..Len(pieces) |-> AnnotatePiece(k, pieces[k].text)]
    /\ spine' = <<>>
    /\ pdf_pages' = <<>>
    /\ li' = 1
    /\ pc' = "layout"
    /\ UNCHANGED <<n_pics_arg, n_pics, story, attempt, split_lens, pieces, imgs,
                   img_requests, manifest, epub_file, html_file, error, ret, frame>>

layoutFrame == <<n_pics_arg, n_pics, story, attempt, split_lens, pieces, imgs,
                 img_requests, html_pieces, pc, epub_file, html_file, error, ret, frame>>

\* zip(html_pieces, imgs)
Zipped == Min(Len(html_pieces), Len(imgs))

\* one turn of the layout loop: the side-by-side page
LayoutSide ==
    /\ pc = "layout"
    /\ li <= Zipped
    /\ LayoutIsSide(html_pieces[li], imgs[li])
    /\ LET sec == SideSec(html_pieces[li], DataUri(imgs[li]))
           epub_sec == Replace(sec, DataUri(imgs[li]), ImgName(li))
       IN  /\ manifest' = manifest \cup {[file_name |-> ImgName(li), content |-> imgs[li]]}
           /\ spine' = Append(spine, Page(li, "", epub_sec))
           /\ pdf_pages' = Append(pdf_pages, sec)
    /\ li' = li + 1
    /\ UNCHANGED layoutFrame

\* one turn of the layout loop: the text page, then the picture page if any
LayoutSolo ==
    /\ pc = "layout"
    /\ li <= Zipped
    /\ ~LayoutIsSide(html_pieces[li], imgs[li])
    /\ LET txt_sec == SoloSec(html_pieces[li])
           img_sec == PictureSec(DataUri(imgs[li]))
       IN  IF imgs[li].present
           THEN /\ manifest' = manifest \cup
                                 {[file_name |-> ImgName(li), content |-> imgs[li]]}
                /\ spine' = spine \o
                      <<Page(li, "_txt", txt_sec),
                        Page(li, "_img", Replace(img_sec, DataUri(imgs[li]), ImgName(li)))>>
                /\ pdf_pages' = PdfAppendPicture(Append(pdf_pages, txt_sec), img_sec)
           ELSE /\ manifest' = manifest
                /\ spine' = Append(spine, Page(li, "_txt", txt_sec))
                /\ pdf_pages' = Append(pdf_pages, txt_sec)
    /\ li' = li + 1
    /\ UNCHANGED layoutFrame

emitFrame == <<n_pics_arg, n_pics, story, attempt, split_lens, pieces, imgs,
               img_requests, html_pieces, li, manifest, spine, pdf_pages, frame>>

\* book.spine = ["nav"] + spine; epub.write_epub(epub_path, book)
WriteEpub ==
    /\ pc = "layout"
    /\ li > Zipped
    /\ epub_file' = [spine |-> <<"nav">> \o spine, items |-> manifest]
    /\ pc' = "write_html"
    /\ UNCHANGED <<html_file, error, ret, emitFrame>>

WriteEpubFails ==
    /\ pc = "layout"
    /\ li > Zipped
    /\ pc' = "failed"
    /\ error' = Failure("emit")
    /\ UNCHANGED <<epub_file, html_file, ret, emitFrame>>

\* Step VI: build_full_html(pdf_pages) is written, and both paths are returned
WriteHtml ==
    /\ pc = "write_html"
    /\ html_file' = [blocks |-> pdf_pages]
    /\ ret' = <<"epub_path", "html_path">>
    /\ pc' = "done"
    /\ UNCHANGED <<epub_file, error, emitFrame>>

WriteHtmlFails ==
    /\ pc = "write_html"
    /\ pc' = "failed"
    /\ error' = Failure("emit")
    /\ UNCHANGED <<epub_file, html_file, ret, emitFrame>>

Next ==
    \/ GenStory
    \/ GenStoryFails
    \/ SplitAccept
    \/ SplitRetry
    \/ SplitMismatch
    \/ SplitFails
    \/ ImageRequest
    \/ ImageFails
    \/ Annotate
    \/ LayoutSide
    \/ LayoutSolo
    \/ WriteEpub
    \/ WriteEpubFails
    \/ WriteHtml
    \/ WriteHtmlFails

Spec == Init /\ [][Next]_vars

\* ---------------------------------------------------------- validate_story
MaxStoryLen == 3

MaxRequired == 2

MaxMinFreq == 2

ValidAlphabet == {"k_one", "k_eat", "k_rare", "ka"}

RequiredAlphabet == {"k_one", "k_eat"}

\* The keys of {k: 0 for k in kanji} in the order the dict keeps them: each key at
\* the place of its first occurrence in the list.
RECURSIVE DictKeys(_, _, _)
DictKeys(lst, j, acc) ==
    IF j > Len(lst) THEN acc
    ELSE DictKeys(lst, j + 1,
                  IF \E k \in 1..Len(acc) : acc[k] = lst[j] THEN acc
                  ELSE Append(acc, lst[j]))

Disallowed_graded(ch, g) ==
    Truthy(grade_of(ch)) /\ grade_of(ch) > g /\ grade_of(ch) # UNGRADED

\* g = grade_of(ch); if g and g > grade
Disallowed(ch, g) == Truthy(grade_of(ch)) /\ grade_of(ch) > g

TooFew_orEqual(c, m) == c <= m

\* if c < min_freq
TooFew(c, m) == c < m

\* ValueError(f"Disallowed kanji {ch}")
DisallowedKanji(ch) == [kind |-> "disallowed", ch |-> ch, count |-> 0, min_freq |-> 0]

\* ValueError(f"{k} appears {c} < required {min_freq}")
InsufficientFrequency(k, c, m) == [kind |-> "too few", ch |-> k, count |-> c, min_freq |-> m]

InitValidate ==
    /\ KanaIdle /\ TextIdle /\ ReaderIdle /\ SharedIdle
    /\ v_txt \in UNION {[1..n -> ValidAlphabet] : n \in 0..MaxStoryLen}
    /\ v_grade \in Grades
    /\ v_kanji \in UNION {[1..n -> RequiredAlphabet] : n \in 0..MaxRequired}
    /\ v_min_freq \in 0..MaxMinFreq
    /\ v_counts = [k \in {v_kanji[j] : j \in 1..Len(v_kanji)} |-> 0]
    /\ v_pos = 1 /\ v_ci = 1 /\ v_pc = "scan"
    /\ v_error = NoValueError

validFrame == <<v_txt, v_grade, v_kanji, v_min_freq, kanaVars, textVars, readerVars,
                sharedVars>>

\* for ch in txt: the character is over the grade, raise
ValidateDisallowed ==
    /\ v_pc = "scan"
    /\ v_pos <= Len(v_txt)
    /\ Disallowed(v_txt[v_pos], v_grade)
    /\ v_error' = DisallowedKanji(v_txt[v_pos])
    /\ v_pc' = "raised"
    /\ UNCHANGED <<v_counts, v_pos, v_ci, validFrame>>

\* for ch in txt: the character is allowed, and counted if it is required
ValidateCount ==
    /\ v_pc = "scan"
    /\ v_pos <= Len(v_txt)
    /\ ~Disallowed(v_txt[v_pos], v_grade)
    /\ v_counts' = IF v_txt[v_pos] \in DOMAIN v_counts
                   THEN [v_counts EXCEPT ![v_txt[v_pos]] = @ + 1]
                   ELSE v_counts
    /\ v_pos' = v_pos + 1
    /\ UNCHANGED <<v_ci, v_pc, v_error, validFrame>>

\* the first loop ends
ValidateScanEnd ==
    /\ v_pc = "scan"
    /\ v_pos > Len(v_txt)
    /\ v_pc' = "counts"
    /\ UNCHANGED <<v_counts, v_pos, v_ci, v_error, validFrame>>

\* for k, c in counts.items(): the count is below the minimum, raise
ValidateTooFew ==
    /\ v_pc = "counts"
    /\ v_ci <= Len(DictKeys(v_kanji, 1, <<>>))
    /\ LET k == DictKeys(v_kanji, 1, <<>>)[v_ci]
       IN  /\ TooFew(v_counts[k], v_min_freq)
           /\ v_error' = InsufficientFrequency(k, v_counts[k], v_min_freq)
    /\ v_pc' = "raised"
    /\ UNCHANGED <<v_counts, v_pos, v_ci, validFrame>>

\* for k, c in counts.items(): the count is enough
ValidateEnough ==
    /\ v_pc = "counts"
    /\ v_ci <= Len(DictKeys(v_kanji, 1, <<>>))
    /\ ~TooFew(v_counts[DictKeys(v_kanji, 1, <<>>)[v_ci]], v_min_freq)
    /\ v_ci' = v_ci + 1
    /\ UNCHANGED <<v_counts, v_pos, v_pc, v_error, validFrame>>

\* the second loop ends and validate_story returns None
ValidateReturn ==
    /\ v_pc = "counts"
    /\ v_ci > Len(DictKeys(v_kanji, 1, <<>>))
    /\ v_pc' = "returned"
    /\ UNCHANGED <<v_counts, v_pos, v_ci, v_error, validFrame>>

NextValidate ==
    \/ ValidateDisallowed
    \/ ValidateCount
    \/ ValidateScanEnd
    \/ ValidateTooFew
    \/ ValidateEnough
    \/ ValidateReturn

SpecValidate == InitValidate /\ [][NextValidate]_vars


\* ------------------------------------ two invocations, one output directory
SLUG_MAXLEN == 50

MaxTitleLen == 2

TitleAlphabet == {"ka", "KA", "hi"}

Titles == UNION {[1..n -> TitleAlphabet] : n \in 0..MaxTitleLen}

OutDirs == {"books", "work"}

Invocations == {1, 2}

\* kakasi's hepburn of one character: a katakana reads as its hiragana does
HepburnOf(c) == Hepburn(kata2hira_char(c))

\* romaji_slug(title): the romaji of the title, cut at maxlen, or "untitled"
romaji_slug(title) ==
    LET roma == Join([k \in 1..Len(title) |-> HepburnOf(title[k])])
    IN  IF roma = <<>> THEN <<"untitled">>
        ELSE SubSeq(roma, 1, Min(Len(roma), SLUG_MAXLEN))

\* out_dir / f"{slug}.epub" and out_dir / f"{slug}.html"
PathOf(dir, slug, ext) == <<dir, slug, ext>>

\* what invocation p writes: its own book, made from its own story
DocOf(p, title, ext) == [by |-> p, title |-> title, ext |-> ext]

\* a file is created or replaced
WriteFile(files, path, doc) ==
    [x \in DOMAIN files \cup {path} |-> IF x = path THEN doc ELSE files[x]]

InitShared ==
    /\ KanaIdle /\ TextIdle /\ ReaderIdle /\ ValidIdle
    /\ fs = <<>>
    /\ inv \in [Invocations -> {[at |-> "gen_story", out_dir |-> d, title |-> <<>>,
                                 slug |-> <<>>, ret |-> <<>>] : d \in OutDirs}]

sharedFrame == <<kanaVars, textVars, readerVars, validVars>>

\* Steps I to V of invocation p: the story comes with its title, which gives the
\* slug; nothing is written yet.
SharedBuild(p) ==
    /\ inv[p].at = "gen_story"
    /\ \E t \in Titles :
        inv' = [inv EXCEPT ![p].title = t, ![p].slug = romaji_slug(t),
                           ![p].at = "write_epub"]
    /\ UNCHANGED <<fs, sharedFrame>>

\* epub.write_epub(epub_path, book) of invocation p
SharedWriteEpub(p) ==
    /\ inv[p].at = "write_epub"
    /\ fs' = WriteFile(fs, PathOf(inv[p].out_dir, inv[p].slug, "epub"),
                       DocOf(p, inv[p].title, "epub"))
    /\ inv' = [inv EXCEPT ![p].at = "write_html"]
    /\ UNCHANGED sharedFrame

\* Step VI of invocation p: the HTML is written and the two paths are returned
SharedWriteHtml(p) ==
    /\ inv[p].at = "write_html"
    /\ fs' = WriteFile(fs, PathOf(inv[p].out_dir, inv[p].slug, "html"),
                       DocOf(p, inv[p].title, "html"))
    /\ inv' = [inv EXCEPT ![p].at = "returned",
                          ![p].ret = <<PathOf(inv[p].out_dir, inv[p].slug, "epub"),
                                       PathOf(inv[p].out_dir, inv[p].slug, "html")>>]
    /\ UNCHANGED sharedFrame

NextShared ==
    \/ \E p \in Invocations : SharedBuild(p)
    \/ \E p \in Invocations : SharedWriteEpub(p)
    \/ \E p \in Invocations : SharedWriteHtml(p)

SpecShared == InitShared /\ [][NextShared]_vars


\* ===================================================================== claims

\* grade_of(ch) > g, the ungraded sentinel included
ClaimOverGrade(ch, g) == grade_of(ch) /= None /\ grade_of(ch) > g

NoOverGrade(s, g) == \A ch \in Chars(s) : ~ClaimOverGrade(ch, g)

SanitizeReturned == phase \in {"sanitize_piece", "inject_ruby", "done"}

PieceReturned == phase \in {"inject_ruby", "done"}

RubyTags == {"<ruby>", "<rt>", "</rt>", "</ruby>"}

\* The character at j of h stands in the base of a ruby annotation,
\* <ruby>...j...<rt>r</rt></ruby>, whose ruby text r is not empty.
WrappedAt(h, j) ==
    \E a \in 1..(j - 1), r \in (j + 1)..(Len(h) - 1) :
        /\ h[a] = "<ruby>"
        /\ h[r] = "<rt>"
        /\ \A b \in (a + 1)..(r - 1) : h[b] \notin RubyTags
        /\ h[r + 1] /= "</rt>"

AllGradeKanjiWrapped(h, g) ==
    \A j \in 1..Len(h) : h[j] \in KANJI[g] => WrappedAt(h, j)

\* The longest trailing run, at most min(|S|, |R|) long, of positions where the
\* surface character is kana and equals the reading character at the same
\* distance from the end.
MatchAt(S, R, d) ==
    is_kana(S[Len(S) - d + 1]) /\ S[Len(S) - d + 1] = R[Len(R) - d + 1]

MatchRun(S, R) ==
    CHOOSE n \in 0..Min(Len(S), Len(R)) :
        /\ \A d \in 1..n : MatchAt(S, R, d)
        /\ n = Min(Len(S), Len(R)) \/ ~MatchAt(S, R, n + 1)

\* The reading left for the ruby text once the okurigana is stripped.
ClaimCoreRead(S, R) == SubSeq(R, 1, Len(R) - MatchRun(S, R))

\* C3 (as stated): every kanji of grade g's set in inject_ruby(sanitize(T, g), g)
\* lies inside a ruby annotation whose ruby text is not empty.
C3_AllGradeKanjiAnnotated ==
    phase = "done" => AllGradeKanjiWrapped(html, grade)

\* C3 (amended): every kanji of grade g's set that inject_ruby emits lies inside
\* a ruby annotation with non-empty ruby text, except the kanji of a token whose
\* reading is empty once the okurigana is stripped: that token is emitted as its
\* bare surface, kanji unannotated.
C3_AnnotatedUnlessEmptyReading ==
    /\ (phase = "inject_ruby" /\ out /= <<>>) =>
          IF ClaimCoreRead(tok.surface, ReadingOf(tok)) = <<>>
          THEN Last(out) = tok.surface
          ELSE AllGradeKanjiWrapped(Last(out), grade)
    /\ phase = "done" => html = Join(out)

\* A token holding a kanji of the grade, next to a kana, has just been annotated.
C3_Witness ==
    /\ phase = "inject_ruby"
    /\ out /= <<>>
    /\ NeedsRuby(tok.surface, grade)
    /\ Len(tok.surface) > 1
    /\ Head(Last(out)) = "<ruby>"
    /\ AllGradeKanjiWrapped(Last(out), grade)

ClaimRuby(S, R) ==
    LET n == MatchRun(S, R)
    IN  <<"<ruby>">> \o SubSeq(S, 1, Len(S) - n) \o <<"<rt>">>
          \o SubSeq(R, 1, Len(R) - n) \o <<"</rt>", "</ruby>">>
          \o SubSeq(S, Len(S) - n + 1, Len(S))

Taberu == [surface |-> <<"k_eat", "be", "ru">>, feature9 |-> <<"TA", "BE", "RU">>]

TaberuRuby == <<"<ruby>", "k_eat", "<rt>", "ta", "</rt>", "</ruby>", "be", "ru">>

\* C4: for a token holding a kanji of the grade, the okurigana inject_ruby strips
\* is exactly the longest matching trailing kana run; an annotation it emits has
\* the surface without the run as base, the reading without as many trailing
\* characters as ruby text, and the run, unmodified, after it.  Surface
\* (eat)(be)(ru) read (ta)(be)(ru) gives base (eat), ruby (ta), okurigana (be)(ru).
C4_OkuriganaIsLongestMatchingRun ==
    /\ phase = "emit" => tk_i - 1 = MatchRun(tok.surface, tk_reading)
    /\ (phase = "tok_done" /\ NeedsRuby(tok.surface, grade)
          /\ Last(out) /= tok.surface) =>
          Last(out) = ClaimRuby(tok.surface, tk_reading)
    /\ (phase = "tok_done" /\ grade = 2 /\ tok = Taberu) => Last(out) = TaberuRuby

C4_Witness ==
    /\ phase = "tok_done"
    /\ grade = 2
    /\ tok = Taberu
    /\ tk_i = 3
    /\ Last(out) = TaberuRuby

\* C5: inject_ruby emits no annotation with empty ruby text; a token whose ruby
\* reading is empty after the okurigana is stripped (a token with an empty
\* reading included) is emitted as its unmodified surface.
C5_NoEmptyRuby ==
    phase = "tok_done" =>
        /\ \A j \in 1..(Len(Last(out)) - 1) :
              Last(out)[j] = "<rt>" => Last(out)[j + 1] /= "</rt>"
        /\ (NeedsRuby(tok.surface, grade)
              /\ ClaimCoreRead(tok.surface, tk_reading) = <<>>) =>
              Last(out) = tok.surface

\* A token with a kanji of the grade whose reading is all okurigana.
C5_Witness ==
    /\ phase = "tok_done"
    /\ NeedsRuby(tok.surface, grade)
    /\ tk_reading /= <<>>
    /\ ClaimCoreRead(tok.surface, tk_reading) = <<>>
    /\ Last(out) = tok.surface

\* The number of long-vowel marks hira starts with.
LeadMarks(h) ==
    CHOOSE n \in 0..Len(h) :
        /\ \A j \in 1..n : h[j] = LongMark
        /\ n = Len(h) \/ h[n + 1] /= LongMark

\* o is the vowel the claim gives after prev: the last vowel letter of prev's
\* romanization mapped a->a, i->i, u->u, e->i, o->u; u when it has none.
ClaimExpansion(prev, o) ==
    LET r == Hepburn(prev)
    IN  IF \A j \in 1..Len(r) : r[j] \notin VowelLetters
        THEN o = "u"
        ELSE \E j \in 1..Len(r) :
                /\ r[j] \in VowelLetters
                /\ \A k \in (j + 1)..Len(r) : r[k] \notin VowelLetters
                /\ o = CASE r[j] = "a" -> "a" [] r[j] = "i" -> "i"
                         [] r[j] = "u" -> "u" [] r[j] = "e" -> "i"
                         [] r[j] = "o" -> "u"

\* C6: the output of kata2hira_fix holds no long-vowel mark; each mark with a
\* preceding output character became exactly one hiragana vowel, the one that
\* continues that character, and every other character its hiragana.
\* (KO)(-)(HI)(-) becomes (ko)(u)(hi)(i).
C6_LongVowelExpanded ==
    LET read == kpos - 1
        lead == Min(LeadMarks(hira), read)
    IN  /\ \A j \in 1..Len(kout) : kout[j] /= LongMark
        /\ Len(kout) = read - lead
        /\ \A j \in (LeadMarks(hira) + 1)..read :
              IF text_kata[j] = LongMark
              THEN ClaimExpansion(kout[j - lead - 1], kout[j - lead])
              ELSE kout[j - lead] = kata2hira_char(text_kata[j])
        /\ (kpc = "done" /\ text_kata = <<"KO", LongMark, "HI", LongMark>>) =>
              kout = <<"ko", "u", "hi", "i">>

C6_Witness ==
    /\ kpc = "done"
    /\ text_kata = <<"KO", LongMark, "HI", LongMark>>
    /\ kout = <<"ko", "u", "hi", "i">>

\* ------------------------------------------------------------------- layout
\* What the claim expects of one (fragment, image) pair.
ClaimSections(h, img) ==
    IF img.present /\ h.visible < CHAR_THRESHOLD
    THEN <<[kind |-> "side", text |-> h, src |-> DataUri(img)]>>
    ELSE <<[kind |-> "solo", text |-> h, src |-> NoRef]>> \o
         (IF img.present
          THEN <<[kind |-> "picture", text |-> NoText, src |-> DataUri(img)]>>
          ELSE <<>>)

RECURSIVE ClaimLayout(_)
ClaimLayout(k) ==
    IF k = 0 THEN <<>>
    ELSE ClaimLayout(k - 1) \o ClaimSections(html_pieces[k], imgs[k])

Kinds(secs) == [k \in 1..Len(secs) |-> secs[k].kind]

\* C7: for each (fragment, optional image) pair the layout emits exactly one side
\* section holding the text and the image when there is an image and the
\* tag-stripped length is strictly below CHAR_THRESHOLD; in every other case
\* (length at or above the threshold, or no image) one solo section with the text,
\* followed by one picture section holding only the image iff there is an image.
C7_LayoutPerPiece ==
    /\ pdf_pages = ClaimLayout(li - 1)
    /\ Kinds([k \in 1..Len(spine) |-> spine[k].content]) = Kinds(ClaimLayout(li - 1))

C7_Witness ==
    /\ pc = "done"
    /\ \E a, b \in 1..Len(html_pieces) :
        /\ imgs[a].present /\ html_pieces[a].visible = CHAR_THRESHOLD
        /\ imgs[b].present /\ html_pieces[b].visible < CHAR_THRESHOLD
        /\ html_pieces[b].markup > 0

\* The piece a page of the EPUB was made for: the i of its file name p{i}...
PieceOfPage(page) == page.file_name[2]

SameSection(page, sec) ==
    /\ page.content.kind = sec.kind
    /\ page.content.text = sec.text
    /\ (sec.kind # "solo") => sec.src = DataUri(imgs[PieceOfPage(page)])

SameSections(pages, secs) ==
    /\ Len(pages) = Len(secs)
    /\ \A k \in 1..Len(pages) : SameSection(pages[k], secs[k])

\* C8: the EPUB spine (without its nav entry) and the list of sections handed to
\* the flattened-HTML builder have the same length and are, position by position,
\* the same section (same piece, same layout kind), while they are built and in
\* the two files of a successful run.
C8_SameSectionSequence ==
    /\ SameSections(spine, pdf_pages)
    /\ (pc = "done") =>
          SameSections(Tail(epub_file.spine), html_file.blocks)

C8_Witness ==
    /\ pc = "done"
    /\ Len(html_file.blocks) >= 3
    /\ \E k \in 1..Len(html_file.blocks) : html_file.blocks[k].kind = "picture"
    /\ \E k \in 1..Len(html_file.blocks) : html_file.blocks[k].kind = "side"

\* C9 (as stated): for every section, the content of the EPUB page is identical to
\* the corresponding section of the flattened document, image sections included.
C9_SectionHtmlIdentical ==
    \A k \in 1..Min(Len(spine), Len(pdf_pages)) : spine[k].content = pdf_pages[k]

\* C9 (amended): the content of the EPUB page and the corresponding section of the
\* flattened document are identical in kind and text; a section without an image
\* is identical in all, and in a section with an image the EPUB page refers to the
\* file img{i}.jpg of the piece's picture in the manifest while the flattened
\* section inlines the data URI of the same picture halved.
C9_IdenticalButImageSource ==
    \A k \in 1..Min(Len(spine), Len(pdf_pages)) :
        LET e == spine[k].content
            f == pdf_pages[k]
            i == PieceOfPage(spine[k])
        IN  /\ e.kind = f.kind
            /\ e.text = f.text
            /\ (f.kind = "solo") => e = f
            /\ (f.kind # "solo") =>
                  /\ e.src = ImgName(i)
                  /\ [file_name |-> ImgName(i), content |-> imgs[i]] \in manifest
                  /\ f.src = DataUri(imgs[i])

C9_Witness ==
    /\ pc = "done"
    /\ \E k \in 1..Len(spine) : spine[k].content.kind = "side"
    /\ \E k \in 1..Len(spine) : spine[k].content.kind = "picture"
    /\ \E k \in 1..Len(spine) : spine[k].content.kind = "solo"

\* -------------------------------------------------------------- split retry
Calls == Len(split_lens)

WrongBefore(n) == \A k \in 1..n : split_lens[k] # n_pics

\* C10: if the splitter answers with a wrong number of pieces on its first k calls
\* and with exactly n_pics pieces on call k+1, for any k <= MAX_RETRY_SPLIT, then
\* make_reader is still calling after each of the k wrong answers, accepts the
\* answer of call k+1, calls the splitter no more and goes on with those pieces.
C10_RetryAcceptsFirstCorrect ==
    /\ Calls <= MAX_RETRY_SPLIT + 1
    /\ WrongBefore(Calls - 1)
    /\ (Calls >= 1 /\ Calls <= MAX_RETRY_SPLIT /\ WrongBefore(Calls)) =>
          \/ pc = "split"
          \/ pc = "failed" /\ error.kind = "generation"
    /\ (Calls >= 1 /\ split_lens[Calls] = n_pics) =>
          /\ pc \notin {"gen_story", "split"}
          /\ error.kind # "split mismatch"
          /\ Len(pieces) = n_pics
          /\ (pc = "failed") => img_requests # <<>>
          /\ \A k \in 1..Len(img_requests) : img_requests[k] = pieces[k].prompt
          /\ \A k \in 1..Len(html_pieces) :
                html_pieces[k] = AnnotatePiece(k, pieces[k].text)

C10_Witness ==
    /\ pc = "done"
    /\ Calls = MAX_RETRY_SPLIT + 1
    /\ split_lens[Calls] = n_pics
    /\ Len(html_pieces) = n_pics

\* C11: if the splitter answers with a piece count other than n_pics on every
\* call, make_reader fails with the split-mismatch error naming the observed and
\* the expected count after exactly MAX_RETRY_SPLIT + 1 calls: the error is never
\* raised after fewer calls, and after that many wrong answers nothing else
\* happens.
C11_MismatchAfterAllRetries ==
    /\ (error.kind = "split mismatch") =>
          /\ pc = "failed"
          /\ Calls = MAX_RETRY_SPLIT + 1
          /\ WrongBefore(Calls)
          /\ error.observed = split_lens[Calls]
          /\ error.expected = n_pics
          /\ error.observed # error.expected
          /\ img_requests = <<>> /\ epub_file = NoFile /\ html_file = NoFile
    /\ (Calls = MAX_RETRY_SPLIT + 1 /\ WrongBefore(Calls)) =>
          /\ pc = "failed"
          /\ error.kind = "split mismatch"
    /\ Calls <= MAX_RETRY_SPLIT + 1

C11_Witness ==
    /\ pc = "failed"
    /\ error = SplitLengthError(MAX_PICS + 1, MAX_PICS)
    /\ split_lens = <<0, MAX_PICS - 1, MAX_PICS + 1>>

\* ------------------------------------------------------------ failed runs
\* C12: no partial success: in every run that ends in a failure, at whatever
\* stage (the write of the flattened HTML after the EPUB included), neither output
\* document has been emitted; and a run that returns has written both.
C12_NoPartialOutput ==
    /\ (pc = "failed") => (epub_file = NoFile /\ html_file = NoFile)
    /\ (pc = "done") => (epub_file # NoFile /\ html_file # NoFile /\ ret # NoReturn)

\* ---------------------------------------------------------- validate_story
ValidateEnded == v_pc \in {"returned", "raised"}

OverGradeAt(j) == ClaimOverGrade(v_txt[j], v_grade)

HasOverGrade == \E j \in 1..Len(v_txt) : OverGradeAt(j)

Occurrences(ch) == Cardinality({j \in 1..Len(v_txt) : v_txt[j] = ch})

Required == {v_kanji[j] : j \in 1..Len(v_kanji)}

\* C13: validate_story fails with the disallowed-kanji error, naming the
\* character, whenever the text holds a character whose grade (the ungraded
\* sentinel included) exceeds the target grade, and never raises that error when
\* the text holds none.
C13_DisallowedIffOverGrade ==
    /\ (v_error.kind = "disallowed") =>
          /\ HasOverGrade
          /\ \E j \in 1..Len(v_txt) : OverGradeAt(j) /\ v_error.ch = v_txt[j]
    /\ (ValidateEnded /\ HasOverGrade) =>
          /\ v_pc = "raised"
          /\ v_error.kind = "disallowed"

C13_Witness ==
    /\ v_pc = "raised"
    /\ v_error = DisallowedKanji("k_rare")
    /\ v_pos = 3
    /\ v_kanji # <<>> /\ v_min_freq = MaxMinFreq

\* C14: for a text with no over-grade character, validate_story fails with the
\* insufficient-frequency error (naming the kanji, its count and the minimum) if
\* and only if some required kanji occurs fewer than min_freq times in the text,
\* and the count it reports is the number of occurrences of that kanji.
C14_TooFewIffBelowMinimum ==
    (ValidateEnded /\ ~HasOverGrade) =>
        /\ (v_error.kind = "too few") <=>
              (\E k \in Required : Occurrences(k) < v_min_freq)
        /\ (v_error.kind = "too few") =>
              /\ v_pc = "raised"
              /\ v_error.ch \in Required
              /\ v_error.count = Occurrences(v_error.ch)
              /\ v_error.count < v_min_freq
              /\ v_error.min_freq = v_min_freq
        /\ (v_error.kind # "too few") => (v_pc = "returned" /\ v_error = NoValueError)

C14_Witness ==
    /\ v_pc = "raised"
    /\ v_error = InsufficientFrequency("k_eat", 1, 2)
    /\ v_kanji = <<"k_one", "k_eat">>
    /\ v_ci = 2

\* ------------------------------------------------------------------ grade_of
AllChars == Kanji \cup Hiragana \cup Katakana \cup {LongMark, Blank}

Ungraded(ch) == is_kanji(ch) /\ \A n \in Grades : ch \notin KANJI[n]

\* C15: grade_of(ch) is None for every non-kanji character, n for a kanji of grade
\* n's set and the sentinel 99 for a kanji of no set; the sentinel exceeds every
\* grade, so sanitize's and validate_story's conditions hold of an ungraded kanji
\* for every target grade 1..6, and validate_story never lets one pass.
C15_GradeOfAndSentinel ==
    /\ \A ch \in AllChars :
        /\ ~is_kanji(ch) => grade_of(ch) = None
        /\ \A n \in Grades : ch \in KANJI[n] => grade_of(ch) = n
        /\ Ungraded(ch) =>
              /\ grade_of(ch) = 99
              /\ \A g \in Grades : 99 > g /\ OverGrade(ch, g) /\ Disallowed(ch, g)
    /\ \A j \in 1..Len(v_txt) :
          Ungraded(v_txt[j]) => ~(j < v_pos \/ v_pc = "returned")

C15_Witness ==
    /\ v_pc = "raised"
    /\ v_grade = 6
    /\ v_pos = 2
    /\ v_txt[1] = "k_eat"
    /\ v_error = DisallowedKanji("k_rare")

\* -------------------------------------------------------------------- order
\* The picture of piece i as the claim has it: the one made from its own prompt.
OwnImage(i) == ImageOf(pieces[i].prompt)

\* C16: the sections of the output are in the order of the pieces: for pieces
\* i < j every section made from piece i precedes every section made from piece
\* j, in the EPUB and in the flattened document, and the picture shown with a
\* piece is the one generated from that piece's own prompt.
C16_SectionsInPieceOrder ==
    /\ \A a, b \in 1..Len(spine) :
          a < b => PieceOfPage(spine[a]) <= PieceOfPage(spine[b])
    /\ \A k \in 1..Min(Len(spine), Len(pdf_pages)) :
          LET i == PieceOfPage(spine[k])
              e == spine[k].content
              f == pdf_pages[k]
          IN  /\ (f.kind # "picture") => (f.text = html_pieces[i] /\ f.text.id = i)
              /\ (f.kind # "solo") =>
                    /\ imgs[i] = OwnImage(i)
                    /\ f.src = DataUri(OwnImage(i))
                    /\ e.src = ImgName(i)
                    /\ [file_name |-> ImgName(i), content |-> OwnImage(i)] \in manifest
    /\ \A k \in 1..Len(imgs) : imgs[k].present => imgs[k] = OwnImage(k)
    /\ \A k \in 1..Len(html_pieces) : html_pieces[k] = AnnotatePiece(k, pieces[k].text)

C16_Witness ==
    /\ pc = "done"
    /\ n_pics = MAX_PICS
    /\ Len(html_file.blocks) = 5
    /\ html_file.blocks[1].kind = "solo" /\ html_file.blocks[3].kind = "side"

\* ---------------------------------------------------------------------- cap
Capped == pc \notin {"idle", "gen_story"} /\ ~(pc = "failed" /\ story = <<>>)

SplitAccepted == Calls >= 1 /\ split_lens[Calls] = n_pics

\* C17: the illustration count is capped at MAX_PICS = 3: for any requested
\* n_pics above 3 the splitter is asked for, and held to, exactly 3 pieces, the
\* accepted piece count is 3, and no run issues more than 3 image requests.
C17_PicsCapped ==
    /\ (Capped /\ n_pics_arg > 3) => n_pics = 3
    /\ Capped => n_pics <= 3
    /\ (SplitAccepted /\ n_pics_arg > 3) => Len(pieces) = 3
    /\ SplitAccepted => Len(pieces) <= 3
    /\ Len(img_requests) <= 3
    /\ Len(imgs) <= 3

C17_Witness ==
    /\ pc = "done"
    /\ n_pics_arg = MAX_PICS + 1
    /\ split_lens = <<MAX_PICS + 1, MAX_PICS>>
    /\ Len(img_requests) = MAX_PICS

\* ------------------------------------------------------------------- images
Generated == Cardinality({k \in 1..Len(imgs) : imgs[k].present})

\* C18: for the accepted pieces make_reader issues one image request per piece,
\* one after the other in piece order; a request that fails is not retried, no
\* request follows it for the later pieces, and the run ends in failure.
C18_OneImageRequestPerPiece ==
    /\ Len(img_requests) <= Len(pieces)
    /\ \A k \in 1..Len(img_requests) : img_requests[k] = pieces[k].prompt
    /\ Len(img_requests) \in {Generated, Generated + 1}
    /\ (img_requests # <<>>) => SplitAccepted
    /\ (Len(img_requests) = Generated + 1) =>
          /\ pc = "failed"
          /\ error.kind = "generation"
          /\ epub_file = NoFile /\ html_file = NoFile
    /\ (pc \in {"annotate", "layout", "write_html", "done"} /\ n_pics > 0) =>
          /\ Len(img_requests) = Len(pieces)
          /\ Generated = Len(pieces)
    /\ (n_pics <= 0) => img_requests = <<>>

C18_Witness ==
    /\ pc = "failed"
    /\ Len(pieces) = MAX_PICS
    /\ Len(img_requests) = 2
    /\ Generated = 1

\* ---------------------------------------------------------------- validator
\* C19: the validator is advisory in make_reader: a generated story in which a
\* required kanji occurs fewer than min_freq times does not make the run fail; no
\* run ends with a validation error, and a run with such a story that fails has
\* failed at a later stage for that stage's reason.
C19_ValidatorAdvisory ==
    /\ error.kind # "validation"
    /\ (pc = "failed") => error.kind \in {"generation", "split mismatch", "emit"}
    /\ (pc = "failed" /\ story # <<>> /\ n_pics <= 0) => error.kind = "emit"

C19_Witness ==
    /\ pc = "done"
    /\ story.verdict = "too few"
    /\ ret # NoReturn
    /\ Len(html_file.blocks) >= 2
    /\ epub_file # NoFile

\* ---------------------------------------------------------------- isolation
\* C20: concurrent invocations share no mutable state: one invocation cannot
\* change the result or the emitted documents of another, two invocations with
\* the same slug and the same output directory included; the documents at the
\* paths an invocation returned are the ones it wrote.
C20_InvocationsIsolated ==
    \A p \in Invocations :
        (inv[p].at = "returned") =>
            /\ fs[inv[p].ret[1]] = DocOf(p, inv[p].title, "epub")
            /\ fs[inv[p].ret[2]] = DocOf(p, inv[p].title, "html")

\* ------------------------------------------------------ leading long marks
\* the text without its leading run of long-vowel marks
WithoutLead(s) == SubSeq(s, LeadMarks(s) + 1, Len(s))

\* C21: a long-vowel mark with no preceding output character is dropped, not
\* expanded: while only the leading run of marks has been read the output is
\* empty, and the result is the result for the text without that run.
C21_LeadingMarksDropped ==
    /\ (kpos - 1 <= LeadMarks(hira)) => kout = <<>>
    /\ (kpc = "done") => kout = kata2hira_fix(WithoutLead(text_kata))
    /\ (kpc = "done" /\ LeadMarks(text_kata) = Len(text_kata)) => kout = <<>>

C21_Witness ==
    /\ kpc = "done"
    /\ text_kata = <<LongMark, LongMark, "KO", LongMark>>
    /\ kout = <<"ko", "u">>

WithoutBlanks(s) == SelectSeq(s, LAMBDA c : c /= Blank)

CleanToken(tk, g) == NoOverGrade(tk.surface, g)

InSanitize == phase \in {"sanitize_story", "sanitize_piece"}

\* C22: sanitize appends the surface, unchanged, for every token that holds no
\* kanji above the grade; the results are joined in token order with nothing
\* between them, so a text none of whose tokens holds such a kanji comes back as
\* the concatenation of its token surfaces (the text without its blanks).
C22_CleanTokensKept ==
    /\ (InSanitize /\ tok /= NoToken /\ CleanToken(tok, grade)) =>
            /\ out /= <<>>
            /\ Last(out) = tok.surface
    /\ (phase = "sanitize_story") =>
            /\ Len(out) = Len(toks)
            /\ \A k \in 1..Len(toks) :
                  CleanToken(toks[k], grade) => out[k] = toks[k].surface
            /\ (\A k \in 1..Len(toks) : CleanToken(toks[k], grade)) =>
                  /\ Join(out) = Join([k \in 1..Len(toks) |-> toks[k].surface])
                  /\ Join(out) = WithoutBlanks(SubSeq(story_raw, 1, tpos - 1))
    /\ (SanitizeReturned /\ NoOverGrade(story_raw, grade)) =>
            story_clean = WithoutBlanks(story_raw)
    /\ (PieceReturned /\ NoOverGrade(story_clean, grade)) =>
            piece_clean = WithoutBlanks(story_clean)

C22_Witness ==
    /\ phase = "sanitize_piece"
    /\ grade = 1
    /\ story_raw = <<"k_one", "be">>
    /\ Len(toks) = 2
    /\ story_clean = <<"k_one", "be">>

\* ------------------------------------------------------ no illustration asked
StoryMade == pc \in {"annotate", "layout", "write_html", "done"} \/
             (pc = "failed" /\ error.kind = "emit")

LaidOut == (pc = "layout" /\ li > Len(html_pieces)) \/ pc \in {"write_html", "done"} \/
           (pc = "failed" /\ error.kind = "emit")

\* C23: with an illustration count of 0 or below make_reader asks neither the
\* splitter nor the image generator; its one piece holds the whole sanitized story
\* and has no image; and the document is exactly one solo section, for a text
\* below the threshold as for one at it.
C23_NoPicsOneSolo ==
    (n_pics_arg <= 0) =>
        /\ split_lens = <<>>
        /\ img_requests = <<>>
        /\ attempt = 0
        /\ pc \notin {"split", "images"}
        /\ StoryMade =>
              /\ Len(pieces) = 1
              /\ pieces[1].index = 1
              /\ pieces[1].text = story.text
              /\ imgs = <<NoImage>>
        /\ LaidOut =>
              /\ pdf_pages = <<[kind |-> "solo", text |-> html_pieces[1], src |-> NoRef]>>
              /\ Len(spine) = 1
              /\ spine[1].content = pdf_pages[1]
              /\ manifest = {}

C23_Witness ==
    /\ pc = "done"
    /\ n_pics_arg = 0
    /\ story.text.len + story.text.ruby < CHAR_THRESHOLD
    /\ Kinds(pdf_pages) = <<"solo">>

\* ------------------------------------------------- the shape of an annotation
FirstPos(h, tag) == CHOOSE j \in 1..Len(h) : h[j] = tag /\ \A b \in 1..(j - 1) : h[b] /= tag

Annotated(h) == h /= <<>> /\ Head(h) = "<ruby>"

\* The base of the annotation h starts with, and what follows its </ruby>.
BaseOf(h) == SubSeq(h, 2, FirstPos(h, "<rt>") - 1)

OkuriOf(h) == SubSeq(h, FirstPos(h, "</ruby>") + 1, Len(h))

\* h without its tags and without what stands between <rt> and </rt>.
RECURSIVE StripFrom(_, _, _)
StripFrom(h, j, inRt) ==
    IF j > Len(h) THEN <<>>
    ELSE IF h[j] = "<rt>" THEN StripFrom(h, j + 1, TRUE)
    ELSE IF h[j] = "</rt>" THEN StripFrom(h, j + 1, FALSE)
    ELSE IF h[j] \in RubyTags \/ inRt THEN StripFrom(h, j + 1, inRt)
    ELSE <<h[j]>> \o StripFrom(h, j + 1, inRt)

StripRuby(h) == StripFrom(h, 1, FALSE)

\* C24: in every annotation inject_ruby emits, the okurigana after </ruby> is
\* kana only, the base is not empty and holds every kanji of the token, and base
\* followed by okurigana is the token's surface; with the tags and the ruby text
\* removed, what a token contributed to the output is its surface again.
C24_CoreAndOkurigana ==
    /\ (phase = "emit") =>
          /\ \A c \in Chars(okurigana(tok.surface, tk_i - 1)) : is_kana(c)
          /\ tk_i - 1 < Len(tok.surface)
    /\ (phase = "tok_done") =>
          /\ StripRuby(Last(out)) = tok.surface
          /\ Annotated(Last(out)) =>
                /\ \A c \in Chars(OkuriOf(Last(out))) : is_kana(c)
                /\ BaseOf(Last(out)) /= <<>>
                /\ \A j \in 1..Len(tok.surface) :
                      is_kanji(tok.surface[j]) =>
                          /\ j <= Len(BaseOf(Last(out)))
                          /\ BaseOf(Last(out))[j] = tok.surface[j]
                /\ BaseOf(Last(out)) \o OkuriOf(Last(out)) = tok.surface

\* (one)(eat)(ru) read (ta)(be)(ru): the base keeps both kanji, (ru) is stripped.
C24_Witness ==
    /\ phase = "tok_done"
    /\ tok.surface = <<"k_one", "k_eat", "ru">>
    /\ tok.feature9 = <<"TA", "BE", "RU">>
    /\ Annotated(Last(out))
    /\ BaseOf(Last(out)) = <<"k_one", "k_eat">>
    /\ OkuriOf(Last(out)) = <<"ru">>

\* ------------------------------------------------ images only after the split
NoDocument ==
    /\ html_pieces = <<>> /\ spine = <<>> /\ pdf_pages = <<>> /\ manifest = {}
    /\ epub_file = NoFile /\ html_file = NoFile /\ ret = NoReturn

StoryFailed == pc = "failed" /\ story = <<>>

RetriesExhausted == pc = "failed" /\ error.kind = "split mismatch"

\* C25: an image is requested only once the splitter has answered with exactly
\* the expected number of pieces, and that answer is the last one asked for; a
\* run that ends because every split answer had another length, or because the
\* story could not be generated, has requested no image and built no document.
C25_ImagesOnlyAfterAcceptedSplit ==
    /\ (pc = "images" \/ img_requests /= <<>> \/ imgs \notin {<<>>, <<NoImage>>}) =>
          /\ Calls >= 1
          /\ split_lens[Calls] = n_pics
          /\ Len(pieces) = n_pics
          /\ error.kind /= "split mismatch"
    /\ RetriesExhausted =>
          /\ Calls = MAX_RETRY_SPLIT + 1
          /\ \A k \in 1..Calls : split_lens[k] /= n_pics
          /\ img_requests = <<>> /\ imgs = <<>>
          /\ NoDocument
    /\ StoryFailed =>
          /\ Calls = 0
          /\ img_requests = <<>> /\ imgs = <<>>
          /\ NoDocument

\* The first image of a run whose second split answer was the accepted one.
C25_Witness ==
    /\ pc = "images"
    /\ n_pics = 2
    /\ split_lens = <<1, 2>>
    /\ Len(img_requests) = 1
    /\ Len(imgs) = 1

====
